---- MODULE Spec2Model ----
(***************************************************************************)
(* Model of the harvesttime download harvesters.                           *)
(*                                                                         *)
(*  - API-pagination harvester  (src/harvest-grok-imagine-v2.js 1-513)     *)
(*  - scroll-scraping harvester (src/harvest-grok-imagine-v2.js 514-1004)  *)
(*  - photo harvester           (src/unnamed/part_000)                     *)
(*  - launcher                  (src/unnamed/part_001)                     *)
(*                                                                         *)
(* Every JavaScript callback runs to completion on the single event-loop   *)
(* thread, so one action is one callback (or one synchronous segment       *)
(* between two awaits).                                                    *)
(***************************************************************************)
EXTENDS Integers, Sequences, FiniteSets, Bags, TLC

(***************************************************************************)
(* Program constants                                                       *)
(***************************************************************************)
CONCURRENT_DOWNLOADS == 5

DOWNLOAD_RETRIES == 3

MAX_CONCURRENT_DOWNLOADS == 25

DOWNLOAD_RESUME_THRESHOLD == 10

MAX_DOWNLOAD_RETRIES == 3

NUM_WINDOWS == 4

(***************************************************************************)
(* Bounds of the model                                                     *)
(***************************************************************************)
\* posts the API returns in the main feed (post 1 also has a video child)
NumPosts == 6

\* transfer failures the environment injects in one run
MaxFailures == 4

\* failures of fetchPage the environment injects in one run
MaxFetchErrors == 1

\* post-processing failures the environment injects in one run
MaxPostFail == 1

\* process runs against the same destination directory
MaxRuns == 2

\* healthy video URLs the main page shows, besides one flaky image URL (scroll-scraping)
NumPlain == 25

\* transfers the environment lets stall in one run (scroll-scraping)
MaxStalls == 1

\* orphan JSON files getTargets finds (photo harvester)
NumTargets == 6

\* the stall timeout of a download, in clock ticks
StallTicks == 2

\* JSON files under rootDir when the photo harvester is run repeatedly
NumRunTargets == 3

\* URLs of the page whose server stalls
NumStalling == 26

\* transfers that stall on that page
MaxLoadStalls == 10

\* clock ticks one download is followed for
MaxTicks == 5

\* byte arrivals of one download
MaxBytes == 3

\* 'updated' events without new bytes of one download
MaxIdleUpdates == 3

(***************************************************************************)
(* API-pagination harvester: state                                         *)
(***************************************************************************)
VARIABLES
  authHeaders,          \* TRUE once request headers were captured (null before)
  canStartDownloads,
  downloadsHaveStarted,
  isScraping,
  harvestPc,            \* position of startApiHarvest: "idle" | "fetch" | "delay" | "errwait" | "finished"
  cursor,               \* number of feed pages already consumed
  hasMore,
  processedIds,
  downloadQueue,        \* sequence of tasks
  activeDownloads,
  harvestStats,
  transfers,            \* bag of running downloadFile calls [task, retryCount]
  retryTimers,          \* bag of armed setTimeout(() => downloadFile(task, retryCount + 1))
  tmpDir,               \* TEMP_DIR:   filename -> "none" | "partial" | "complete"
  outDir,               \* OUTPUT_DIR: filename -> "none" | "partial" | "complete"
  quitCalled,           \* app.quit() was called and the process is gone
  feed,                 \* what the API answers: sequence of pages (the run's input)
  run,                  \* number of this process run against outDir
  hist,                 \* history, per filename: what happened to the task in this run
  prevAllDownloaded,    \* history: the previous run ended with every candidate downloaded
  enqueued,             \* history: filenames in the order addToQueue pushed them
  dispatched,           \* history: filenames in the order of their first downloadFile call
  harvestStarts,        \* history: startApiHarvest calls of this run
  nFail, nFetchErr, nPostFail   \* faults injected so far in this run

apiVars == <<authHeaders, canStartDownloads, downloadsHaveStarted, isScraping, harvestPc,
             cursor, hasMore, processedIds, downloadQueue, activeDownloads, harvestStats,
             transfers, retryTimers, tmpDir, outDir, quitCalled, feed, run, hist,
             prevAllDownloaded, enqueued, dispatched, harvestStarts, nFail, nFetchErr,
             nPostFail>>

(***************************************************************************)
(* Scroll-scraping harvester: state                                        *)
(*                                                                         *)
(* The URLs of a page differ only in the post id, which no handler         *)
(* inspects, so the state is kept as a bag of per-URL records: the entry   *)
(* of the activeDownloads Map (when tracked), the downloadURL calls and    *)
(* download items in flight for the URL, and the file at its save path.    *)
(***************************************************************************)
VARIABLES
  urls,                 \* bag of per-URL records
  scrapingFinished,
  scrapingPaused,       \* window.__SCRAPING_PAUSED as last written by the main process
  scrollQuit,           \* app.quit() was called
  scrollRun,            \* number of this process run against destDir
  scrollPrevAllOk,      \* history: the previous run ended with every candidate downloaded
  scrollAborted,        \* history: the run was ended by the operator or by a fatal error
  sFail, sStall         \* faults injected so far in this run

scrollVars == <<urls, scrapingFinished, scrapingPaused, scrollQuit, scrollRun,
                scrollPrevAllOk, scrollAborted, sFail, sStall>>

(***************************************************************************)
(* Photo harvester: state                                                  *)
(*                                                                         *)
(* The workers of main differ only in the window they drive, which no      *)
(* decision depends on, so they are kept as a bag of worker records.       *)
(***************************************************************************)
VARIABLES
  pTargets,             \* what getTargets returned: sequence of target ids
  pQueue,               \* the `queue` array of main (target ids)
  pWorkers,             \* bag of worker records
  pJson,                \* per target: its JSON file is "visible" | "hidden"
  pMedia,               \* per target: the media file, "none" | "partial" | "complete"
  pPc,                  \* position of the whenReady callback: "targets" | "pool" | "quit",
                        \* or "failed" once main has thrown
  pTaken,               \* history: target ids in the order they were shifted off the queue
  pProcessed,           \* history, per target: processTarget calls
  pRun                  \* number of this process run against rootDir

photoVars == <<pTargets, pQueue, pWorkers, pJson, pMedia, pPc, pTaken, pProcessed, pRun>>

(***************************************************************************)
(* One download item and its stall timer, as the 'will-download' handlers  *)
(* of the scroll-scraping and of the photo harvester set them up.  Time is *)
(* counted in ticks; the timeout is StallTicks ticks.                      *)
(***************************************************************************)
VARIABLES
  tItem,                \* the download item: [state, received]
  tLastBytes,           \* `lastBytes` of the handler's closure (scroll-scraping)
  tTimer,               \* `timeoutId`: [armed, age], age = ticks since setTimeout
  tClock                \* history: [sinceBytes, maxGap, elapsed, byTimer, idleUpdates]

timerVars == <<tItem, tLastBytes, tTimer, tClock>>

VARIABLE choice         \* process.argv[2] of the launcher: which harvester this process runs

vars == <<apiVars, scrollVars, photoVars, timerVars, choice>>

(***************************************************************************)
(* Inputs: posts and feeds                                                 *)
(***************************************************************************)
MkPost(i, img, mime, child) ==
  [id |-> i, mediaUrl |-> img, mimeType |-> mime, hasChild |-> child, childMime |-> "video/mp4"]

\* post 1 has an image and a video child, post 2 has an unknown MIME type
PostOf(i) ==
  MkPost(i, TRUE, IF i = 2 THEN "application/octet-stream" ELSE "image/png", i = 1)

RECURSIVE PostsFromTo(_, _)
PostsFromTo(a, b) == IF a > b THEN <<>> ELSE <<PostOf(a)>> \o PostsFromTo(a + 1, b)

\* two pages; the second page repeats post 1 and is the last one (no nextCursor)
MainFeed ==
  << [posts |-> PostsFromTo(1, 2), nextCursor |-> TRUE],
     [posts |-> PostsFromTo(3, NumPosts) \o <<PostOf(1)>>, nextCursor |-> FALSE] >>

\* small feeds for runs that are repeated against the same destination
SmallFeeds ==
  { << [posts |-> PostsFromTo(1, 2), nextCursor |-> FALSE] >>,
    << [posts |-> PostsFromTo(2, 2), nextCursor |-> TRUE],
       [posts |-> <<>>, nextCursor |-> FALSE] >> }

(***************************************************************************)
(* Pure helpers                                                            *)
(***************************************************************************)
GetExtension(mimeType) ==
  CASE mimeType = "image/jpeg" -> "jpg"
    [] mimeType = "image/png"  -> "png"
    [] mimeType = "image/gif"  -> "gif"
    [] mimeType = "image/webp" -> "webp"
    [] mimeType = "video/mp4"  -> "mp4"
    [] OTHER -> "null"

\* `grok-image-${post.id}.${ext}` / `grok-video-${post.id}${suffix}.${ext}`
ImageTask(post) ==
  LET e == GetExtension(post.mimeType)
      ext == IF e = "null" THEN "jpg" ELSE e
  IN  [filename |-> <<"grok-image", post.id, ext>>, type |-> "image"]

VideoTask(post) ==
  LET e == GetExtension(post.childMime)
      ext == IF e = "null" THEN "mp4" ELSE e
  IN  [filename |-> <<"grok-video", post.id, ext>>, type |-> "video"]

\* every filename a task of the modelled feeds can have
Files ==
  {ImageTask(PostOf(i)).filename : i \in {j \in 1..NumPosts : PostOf(j).mediaUrl}}
    \cup {VideoTask(PostOf(i)).filename : i \in {j \in 1..NumPosts : PostOf(j).hasChild}}

FileStates == {"none", "partial", "complete"}

\* Faults are injected into the two tasks of post 1 only: their transfers may fail
\* and their post-processing may fail.
MayFail(task) == task.filename[2] = 1

MayPostFail(task) == task.filename[2] = 1

\* attempts: downloadFile calls; failures: transfers that failed; finished: transfers
\* whose body was written ('finish'); completed: counted in harvestStats.downloaded;
\* gaveUp: counted in harvestStats.errors; postFailed: post-processing threw;
\* metaFailed: embedMetadata failed inside; ioFailed: the rename to the final path or
\* utimes failed
\* leftPending: the length of downloadQueue when the task was given up
NoHist == [attempts |-> 0, queued |-> 0, skipped |-> 0, failures |-> 0, finished |-> 0,
           completed |-> 0, gaveUp |-> 0, postFailed |-> 0, metaFailed |-> 0, ioFailed |-> 0,
           leftPending |-> 0]

RECURSIVE SeqToSet(_)
SeqToSet(s) == IF s = <<>> THEN {} ELSE {Head(s)} \cup SeqToSet(Tail(s))

\* the candidate tasks of a feed (what processPost derives from its posts)
RECURSIVE FeedPosts(_)
FeedPosts(f) == IF f = <<>> THEN {} ELSE SeqToSet(Head(f).posts) \cup FeedPosts(Tail(f))

Candidates(f) ==
  {ImageTask(p).filename : p \in {x \in FeedPosts(f) : x.mediaUrl}}
    \cup {VideoTask(p).filename : p \in {x \in FeedPosts(f) : x.hasChild}}

(***************************************************************************)
(* API-pagination harvester: the program state as one record, so that the  *)
(* nested calls (processPost -> addToQueue -> checkQueue -> downloadFile)  *)
(* compose as functions on it                                              *)
(***************************************************************************)
Cur ==
  [authHeaders |-> authHeaders, canStartDownloads |-> canStartDownloads,
   downloadsHaveStarted |-> downloadsHaveStarted, isScraping |-> isScraping,
   harvestPc |-> harvestPc, cursor |-> cursor, hasMore |-> hasMore,
   processedIds |-> processedIds, downloadQueue |-> downloadQueue,
   activeDownloads |-> activeDownloads, harvestStats |-> harvestStats,
   transfers |-> transfers, retryTimers |-> retryTimers, tmpDir |-> tmpDir,
   outDir |-> outDir, quitCalled |-> quitCalled, hist |-> hist,
   enqueued |-> enqueued, dispatched |-> dispatched, harvestStarts |-> harvestStarts]

Commit(S) ==
  /\ authHeaders' = S.authHeaders
  /\ canStartDownloads' = S.canStartDownloads
  /\ downloadsHaveStarted' = S.downloadsHaveStarted
  /\ isScraping' = S.isScraping
  /\ harvestPc' = S.harvestPc
  /\ cursor' = S.cursor
  /\ hasMore' = S.hasMore
  /\ processedIds' = S.processedIds
  /\ downloadQueue' = S.downloadQueue
  /\ activeDownloads' = S.activeDownloads
  /\ harvestStats' = S.harvestStats
  /\ transfers' = S.transfers
  /\ retryTimers' = S.retryTimers
  /\ tmpDir' = S.tmpDir
  /\ outDir' = S.outDir
  /\ quitCalled' = S.quitCalled
  /\ hist' = S.hist
  /\ enqueued' = S.enqueued
  /\ dispatched' = S.dispatched
  /\ harvestStarts' = S.harvestStarts

One(x) == SetToBag({x})

\* app.quit(): the 'will-quit' handler removes TEMP_DIR, then the process ends
AppQuit(S) ==
  [S EXCEPT !.quitCalled = TRUE, !.tmpDir = [f \in Files |-> "none"]]

\* downloadFile(task, retryCount): the synchronous part, up to request.end()
DownloadFile(S, task, retryCount) ==
  [S EXCEPT !.activeDownloads = @ + 1,
            !.tmpDir[task.filename] = "partial",
            !.transfers = @ (+) One([task |-> task, retryCount |-> retryCount]),
            !.hist[task.filename].attempts = @ + 1,
            !.dispatched = IF retryCount = 0 THEN Append(@, task.filename) ELSE @]

\* DispatchLoop taking the newest task of the queue (pop) instead of the oldest (shift)
RECURSIVE DispatchLoop_Pop(_)
DispatchLoop_Pop(S) ==
  IF S.activeDownloads < CONCURRENT_DOWNLOADS /\ Len(S.downloadQueue) > 0
  THEN DispatchLoop_Pop(DownloadFile(
         [S EXCEPT !.downloadQueue = SubSeq(@, 1, Len(@) - 1)],
         S.downloadQueue[Len(S.downloadQueue)], 0))
  ELSE S

\* the while loop of checkQueue
RECURSIVE DispatchLoop(_)
DispatchLoop(S) ==
  IF S.activeDownloads < CONCURRENT_DOWNLOADS /\ Len(S.downloadQueue) > 0
  THEN DispatchLoop(DownloadFile([S EXCEPT !.downloadQueue = Tail(@)], Head(S.downloadQueue), 0))
  ELSE S

CheckQueue(S) ==
  IF ~S.canStartDownloads THEN S
  ELSE IF Len(S.downloadQueue) = 0 /\ S.activeDownloads = 0 /\ ~S.isScraping
       THEN AppQuit(S)
       ELSE DispatchLoop(S)

AddToQueue(S, task) ==
  IF S.outDir[task.filename] # "none"
  THEN [S EXCEPT !.harvestStats.skipped = @ + 1, !.hist[task.filename].skipped = @ + 1]
  ELSE [S EXCEPT !.downloadQueue = Append(@, task),
                 !.hist[task.filename].queued = @ + 1,
                 !.enqueued = Append(@, task.filename)]

\* ProcessPost without the processedIds test
ProcessPost_NoDedup(S, post) ==
  LET S1 == [S EXCEPT !.processedIds = @ \cup {post.id}, !.harvestStats.found = @ + 1]
      S2 == IF post.mediaUrl THEN AddToQueue(S1, ImageTask(post)) ELSE S1
      S3 == IF post.hasChild THEN AddToQueue(S2, VideoTask(post)) ELSE S2
  IN  CheckQueue(S3)

ProcessPost(S, post) ==
  IF post.id \in S.processedIds THEN S
  ELSE LET S1 == [S EXCEPT !.processedIds = @ \cup {post.id}, !.harvestStats.found = @ + 1]
           S2 == IF post.mediaUrl THEN AddToQueue(S1, ImageTask(post)) ELSE S1
           S3 == IF post.hasChild THEN AddToQueue(S2, VideoTask(post)) ELSE S2
       IN  CheckQueue(S3)

\* for (const post of data.posts) processPost(post)
RECURSIVE ProcessPosts(_, _)
ProcessPosts(S, posts) ==
  IF posts = <<>> THEN S ELSE ProcessPosts(ProcessPost(S, Head(posts)), Tail(posts))

\* startApiHarvest up to its first await
StartApiHarvest(S) ==
  [S EXCEPT !.isScraping = TRUE, !.cursor = 0, !.hasMore = TRUE, !.harvestPc = "fetch",
            !.harvestStarts = @ + 1]

\* startApiHarvest after its while loop
FinishHarvest(S) ==
  CheckQueue([S EXCEPT !.isScraping = FALSE, !.harvestPc = "finished"])

\* HandleDownloadError whose give-up branch does not release the slot
HandleDownloadError_SlotKept(S, task, retryCount) ==
  IF retryCount < DOWNLOAD_RETRIES
  THEN [S EXCEPT !.activeDownloads = @ - 1,
                 !.retryTimers = @ (+) One([task |-> task, retryCount |-> retryCount])]
  ELSE CheckQueue([S EXCEPT !.tmpDir[task.filename] = "none",
                            !.harvestStats.errors = @ + 1,
                            !.hist[task.filename].gaveUp = @ + 1,
                            !.hist[task.filename].leftPending = Len(S.downloadQueue)])

\* HandleDownloadError whose give-up branch ends the run
HandleDownloadError_Abort(S, task, retryCount) ==
  IF retryCount < DOWNLOAD_RETRIES
  THEN [S EXCEPT !.activeDownloads = @ - 1,
                 !.retryTimers = @ (+) One([task |-> task, retryCount |-> retryCount])]
  ELSE AppQuit([S EXCEPT !.tmpDir[task.filename] = "none",
                         !.harvestStats.errors = @ + 1,
                         !.activeDownloads = @ - 1,
                         !.hist[task.filename].gaveUp = @ + 1,
                         !.hist[task.filename].leftPending = Len(S.downloadQueue)])

HandleDownloadError(S, task, retryCount) ==
  IF retryCount < DOWNLOAD_RETRIES
  THEN [S EXCEPT !.activeDownloads = @ - 1,
                 !.retryTimers = @ (+) One([task |-> task, retryCount |-> retryCount])]
  ELSE CheckQueue([S EXCEPT !.tmpDir[task.filename] = "none",
                            !.harvestStats.errors = @ + 1,
                            !.activeDownloads = @ - 1,
                            !.hist[task.filename].gaveUp = @ + 1,
                            !.hist[task.filename].leftPending = Len(S.downloadQueue)])

\* embedMetadata(tempPath, task): what is at tempPath when it returns.
\*   "ok"          the tool ran
\*   "toolMissing" spawn fails with ENOENT, caught
\*   "toolFailed"  the tool exits non-zero, caught
\*   "swapFailed"  video only: ffmpeg ran and filePath was unlinked, then the rename of
\*                 tempOutput to filePath fails; the catch unlinks tempOutput
EmbedMetadata(S, task, meta) ==
  IF task.type = "video" /\ meta = "swapFailed"
  THEN [S EXCEPT !.tmpDir[task.filename] = "none"]
  ELSE S

\* FinishHandler with activeDownloads-- at the end of the try block instead of finally
FinishHandler_ReleaseInTry(S, task, meta, io) ==
  LET f  == task.filename
      S1 == EmbedMetadata([S EXCEPT !.tmpDir[f] = "complete",
                                    !.hist[f].finished = @ + 1,
                                    !.hist[f].metaFailed = IF meta # "ok" THEN @ + 1 ELSE @,
                                    !.hist[f].ioFailed = IF io # "ok" THEN @ + 1 ELSE @],
                          task, meta)
      renameThrows == S1.tmpDir[f] = "none" \/ io \in {"renameFail", "renameFailTwice"}
      Moved(T) == [T EXCEPT !.outDir[f] = T.tmpDir[f], !.tmpDir[f] = "none"]
      S2 == IF ~renameThrows
            THEN IF io = "utimesFail"
                 THEN [Moved(S1) EXCEPT !.hist[f].postFailed = @ + 1]
                 ELSE [Moved(S1) EXCEPT !.harvestStats.downloaded = @ + 1,
                                        !.hist[f].completed = @ + 1,
                                        !.activeDownloads = @ - 1]
            ELSE LET T == [S1 EXCEPT !.hist[f].postFailed = @ + 1]
                 IN  IF T.tmpDir[f] # "none" /\ T.outDir[f] = "none" /\ io # "renameFailTwice"
                     THEN Moved(T)
                     ELSE T
  IN  CheckQueue(S2)

\* the file 'finish' handler of downloadFile; io is what the filesystem does:
\*   "ok" | "renameFail" (the first rename throws) | "renameFailTwice" | "utimesFail"
FinishHandler(S, task, meta, io) ==
  LET f  == task.filename
      S1 == EmbedMetadata([S EXCEPT !.tmpDir[f] = "complete",
                                    !.hist[f].finished = @ + 1,
                                    !.hist[f].metaFailed = IF meta # "ok" THEN @ + 1 ELSE @,
                                    !.hist[f].ioFailed = IF io # "ok" THEN @ + 1 ELSE @],
                          task, meta)
      renameThrows == S1.tmpDir[f] = "none" \/ io \in {"renameFail", "renameFailTwice"}
      Moved(T) == [T EXCEPT !.outDir[f] = T.tmpDir[f], !.tmpDir[f] = "none"]
      S2 == IF ~renameThrows
            THEN IF io = "utimesFail"
                 THEN [Moved(S1) EXCEPT !.hist[f].postFailed = @ + 1]
                 ELSE [Moved(S1) EXCEPT !.harvestStats.downloaded = @ + 1,
                                        !.hist[f].completed = @ + 1]
            ELSE \* catch (err)
                 LET T == [S1 EXCEPT !.hist[f].postFailed = @ + 1]
                 IN  IF T.tmpDir[f] # "none" /\ T.outDir[f] = "none" /\ io # "renameFailTwice"
                     THEN Moved(T)
                     ELSE T
  IN  \* finally
      CheckQueue([S2 EXCEPT !.activeDownloads = @ - 1])

(***************************************************************************)
(* API-pagination harvester: initial state and actions                     *)
(***************************************************************************)
ApiInitWith(fd, autostart, existing) ==
  /\ authHeaders = FALSE
  /\ canStartDownloads = autostart
  /\ downloadsHaveStarted = FALSE
  /\ isScraping = FALSE
  /\ harvestPc = "idle"
  /\ cursor = 0
  /\ hasMore = FALSE
  /\ processedIds = {}
  /\ downloadQueue = <<>>
  /\ activeDownloads = 0
  /\ harvestStats = [found |-> 0, downloaded |-> 0, skipped |-> 0, errors |-> 0]
  /\ transfers = EmptyBag
  /\ retryTimers = EmptyBag
  /\ tmpDir = [f \in Files |-> "none"]
  /\ outDir = [f \in Files |-> IF f \in existing THEN "complete" ELSE "none"]
  /\ quitCalled = FALSE
  /\ feed = fd
  /\ run = 1
  /\ hist = [f \in Files |-> NoHist]
  /\ prevAllDownloaded = FALSE
  /\ enqueued = <<>>
  /\ dispatched = <<>>
  /\ harvestStarts = 0
  /\ nFail = 0
  /\ nFetchErr = 0
  /\ nPostFail = 0

Running == ~quitCalled

Env == <<feed, run, prevAllDownloaded, scrollVars, photoVars, timerVars, choice>>

\* session.defaultSession.webRequest.onBeforeSendHeaders callback
HeadersCaptured ==
  /\ Running
  /\ ~downloadsHaveStarted   \* afterwards the callback changes nothing
  /\ Commit(IF ~downloadsHaveStarted
            THEN LET S == [Cur EXCEPT !.authHeaders = TRUE]
                 IN  IF S.canStartDownloads /\ ~S.downloadsHaveStarted
                     THEN StartApiHarvest([S EXCEPT !.downloadsHaveStarted = TRUE])
                     ELSE S
            ELSE Cur)
  /\ UNCHANGED <<Env, nFail, nFetchErr, nPostFail>>

\* the F7 callback without its downloadsHaveStarted test
PressF7_NoStartedTest ==
  /\ Running
  /\ authHeaders
  /\ Commit(StartApiHarvest([Cur EXCEPT !.canStartDownloads = TRUE,
                                        !.downloadsHaveStarted = TRUE]))
  /\ UNCHANGED <<Env, nFail, nFetchErr, nPostFail>>

\* globalShortcut.register('F7', ...) callback
PressF7 ==
  /\ Running
  /\ ~downloadsHaveStarted /\ authHeaders   \* otherwise the callback only logs
  /\ Commit(IF downloadsHaveStarted THEN Cur
            ELSE IF ~authHeaders THEN Cur
            ELSE StartApiHarvest([Cur EXCEPT !.canStartDownloads = TRUE,
                                             !.downloadsHaveStarted = TRUE]))
  /\ UNCHANGED <<Env, nFail, nFetchErr, nPostFail>>

\* `await fetchPage(cursor)` resolves: one page is processed up to the next await
FetchResolved ==
  /\ Running
  /\ harvestPc = "fetch"
  /\ LET data == IF cursor < Len(feed) THEN feed[cursor + 1]
                 ELSE [posts |-> <<>>, nextCursor |-> FALSE]
     IN  Commit(IF Len(data.posts) = 0
                THEN FinishHarvest([Cur EXCEPT !.hasMore = FALSE])
                ELSE [ProcessPosts(Cur, data.posts) EXCEPT
                        !.cursor = @ + 1,
                        !.hasMore = data.nextCursor,
                        !.harvestPc = "delay"])
  /\ UNCHANGED <<Env, nFail, nFetchErr, nPostFail>>

\* `await fetchPage(cursor)` rejects: catch, wait 5 seconds
FetchRejected ==
  /\ Running
  /\ harvestPc = "fetch"
  /\ nFetchErr < MaxFetchErrors
  /\ nFetchErr' = nFetchErr + 1
  /\ Commit([Cur EXCEPT !.harvestPc = "errwait"])
  /\ UNCHANGED <<Env, nFail, nPostFail>>

\* one of the two timers awaited in the while loop fires; the loop condition is tested
HarvestTimer ==
  /\ Running
  /\ harvestPc \in {"delay", "errwait"}
  /\ Commit(IF hasMore THEN [Cur EXCEPT !.harvestPc = "fetch"] ELSE FinishHarvest(Cur))
  /\ UNCHANGED <<Env, nFail, nFetchErr, nPostFail>>

\* request.on('response') with statusCode !== 200, or request.on('error')
TransferFailed ==
  /\ Running
  /\ nFail < MaxFailures
  /\ \E x \in {y \in BagToSet(transfers) : MayFail(y.task)} :
       Commit(HandleDownloadError(
                [Cur EXCEPT !.transfers = @ (-) One(x),
                            !.tmpDir[x.task.filename] = "none",
                            !.hist[x.task.filename].failures = @ + 1],
                x.task, x.retryCount))
  /\ nFail' = nFail + 1
  /\ UNCHANGED <<Env, nFetchErr, nPostFail>>

\* file.on('finish'): the body was written, post-processing runs
TransferFinished ==
  /\ Running
  /\ \E x \in BagToSet(transfers) :
     \E meta \in {"ok", "toolMissing", "toolFailed", "swapFailed"} :
     \E io \in {"ok", "renameFail", "renameFailTwice", "utimesFail"} :
       LET faulty == meta # "ok" \/ io # "ok"
       IN  /\ faulty => (nPostFail < MaxPostFail /\ MayPostFail(x.task))
           /\ (meta = "swapFailed") => (x.task.type = "video")
           /\ nPostFail' = IF faulty THEN nPostFail + 1 ELSE nPostFail
           /\ Commit(FinishHandler([Cur EXCEPT !.transfers = @ (-) One(x)], x.task, meta, io))
  /\ UNCHANGED <<Env, nFail, nFetchErr>>

\* the retry timer of handleDownloadError fires: downloadFile(task, retryCount + 1)
RetryTimerFired ==
  /\ Running
  /\ \E x \in BagToSet(retryTimers) :
       Commit(DownloadFile([Cur EXCEPT !.retryTimers = @ (-) One(x)], x.task, x.retryCount + 1))
  /\ UNCHANGED <<Env, nFail, nFetchErr, nPostFail>>

\* the harvester is started again against the same OUTPUT_DIR with the same feed
Restart ==
  /\ quitCalled
  /\ run < MaxRuns
  /\ authHeaders' = FALSE
  /\ canStartDownloads' \in BOOLEAN
  /\ downloadsHaveStarted' = FALSE
  /\ isScraping' = FALSE
  /\ harvestPc' = "idle"
  /\ cursor' = 0
  /\ hasMore' = FALSE
  /\ processedIds' = {}
  /\ downloadQueue' = <<>>
  /\ activeDownloads' = 0
  /\ harvestStats' = [found |-> 0, downloaded |-> 0, skipped |-> 0, errors |-> 0]
  /\ transfers' = EmptyBag
  /\ retryTimers' = EmptyBag
  /\ tmpDir' = [f \in Files |-> "none"]
  /\ quitCalled' = FALSE
  /\ run' = run + 1
  /\ hist' = [f \in Files |-> NoHist]
  /\ prevAllDownloaded' = \A f \in Candidates(feed) : hist[f].completed = 1
  /\ enqueued' = <<>>
  /\ dispatched' = <<>>
  /\ harvestStarts' = 0
  /\ nFail' = 0
  /\ nFetchErr' = 0
  /\ nPostFail' = 0
  /\ UNCHANGED <<outDir, feed, scrollVars, photoVars, timerVars, choice>>

(***************************************************************************)
(* Scroll-scraping harvester: file names                                   *)
(*                                                                         *)
(* A name is a sequence of tokens; "." is a token of its own and every     *)
(* other token is a dot-free word, so 'grok-image-<id>.tmp' is             *)
(* <<"grok-image", ".", "tmp">>.                                           *)
(***************************************************************************)
GetExtensionFromMimeType(mimeType) ==
  CASE mimeType = "image/jpeg" -> "jpg"
    [] mimeType = "image/png"  -> "png"
    [] mimeType = "image/gif"  -> "gif"
    [] mimeType = "image/webp" -> "webp"
    [] mimeType = "video/mp4"  -> "mp4"
    [] OTHER -> "null"

\* the tokens of an extension string: 'jpg' is one word, '.jpg' is a dot and a word
ExtTokens(ext) == IF ext = ".jpg" THEN <<".", "jpg">> ELSE <<ext>>

\* name.endsWith('.tmp')
EndsWithTmp(name) ==
  Len(name) >= 2 /\ name[Len(name) - 1] = "." /\ name[Len(name)] = "tmp"

\* name.replace('.tmp', `.${extension}`): the first occurrence only
RECURSIVE ReplaceTmp(_, _)
ReplaceTmp(name, extension) ==
  IF Len(name) < 2 THEN name
  ELSE IF name[1] = "." /\ name[2] = "tmp"
       THEN <<".">> \o ExtTokens(extension) \o SubSeq(name, 3, Len(name))
       ELSE <<name[1]>> \o ReplaceTmp(Tail(name), extension)

\* file.replace(/\.[^/.]+$/, ""): drops a last dot that is followed by a word
StripExtension(name) ==
  IF Len(name) >= 2 /\ name[Len(name)] # "." /\ name[Len(name) - 1] = "."
  THEN SubSeq(name, 1, Len(name) - 2)
  ELSE name

\* the final filename the 'will-download' handler computes
ResolveFilename(info, mimeType) ==
  LET start == IF info.finalFilename # <<>> THEN info.finalFilename ELSE info.baseFilename
  IN  IF EndsWithTmp(start) /\ ~info.isRetry
      THEN LET e == GetExtensionFromMimeType(mimeType)
               extension == IF e = "null" THEN ".jpg" ELSE e
           IN  [name |-> ReplaceTmp(start, extension), store |-> TRUE]
      ELSE [name |-> start, store |-> FALSE]

(***************************************************************************)
(* Scroll-scraping harvester: per-URL records                              *)
(***************************************************************************)
\* a candidate download of dealWithItem: { url, baseName, suffix } and what the
\* environment does with the URL (its MIME type, whether its transfers may fail or
\* stall, whether the renderer requests the URL twice)
MkCand(baseName, suffix, mime, troubled, twin) ==
  [baseName |-> baseName, suffix |-> suffix, mimeType |-> mime,
   troubled |-> troubled, twin |-> twin]

PlainVideo == MkCand(<<"grok-video">>, <<".", "mp4">>, "video/mp4", FALSE, FALSE)

KnownImage == MkCand(<<"grok-image">>, <<".", "tmp">>, "image/png", FALSE, FALSE)

\* an image on a flaky server: its transfers may fail or stall
FlakyImage == MkCand(<<"grok-image">>, <<".", "tmp">>, "image/png", TRUE, FALSE)

\* an image of unknown MIME type on a flaky server, whose URL is requested twice
OddImage == MkCand(<<"grok-image">>, <<".", "tmp">>, "application/octet-stream", TRUE, TRUE)

NoInfo == [baseFilename |-> <<>>, retriesLeft |-> 0, isRetry |-> FALSE,
           status |-> "none", finalFilename |-> <<>>]

NoFile == [name |-> <<>>, content |-> "none"]

\* a URL at the start of a run: `file` is what destDir holds for it, `existingBase` its
\* entry in existingFileBases (startScraping)
FreshUrl(cand, file) ==
  [cand |-> cand,
   existingBase |-> IF file.content = "none" THEN <<>> ELSE StripExtension(file.name),
   dealt |-> FALSE,       \* dealWithItem has handled the candidate
   sent |-> 0,            \* __DOWNLOAD_URL__ messages sent for the URL
   tracked |-> FALSE,     \* activeDownloads.has(url)
   info |-> NoInfo,       \* the downloadInfo object
   reqs |-> 0,            \* downloadURL(url) calls whose 'will-download' is still to come
   items |-> 0,           \* download items of the URL that are not done
   file |-> file,         \* the file at the save path
   attempts |-> 0,        \* history: transfers started for the task in this run
   skipped |-> FALSE,     \* history: the renderer found the candidate cached
   completed |-> 0,       \* history: transfers that ended 'completed'
   stalled |-> 0]         \* history: transfers cancelled by the stall timer

\* a downloadInfo object nobody refers to any more is garbage
Tidy(u) == IF ~u.tracked /\ u.items = 0 THEN [u EXCEPT !.info = NoInfo] ELSE u

RECURSIVE SumCopies(_, _)
SumCopies(B, S) ==
  IF S = {} THEN 0
  ELSE LET x == CHOOSE y \in S : TRUE IN CopiesIn(x, B) + SumCopies(B, S \ {x})

\* activeDownloads.size
MapSize(B) == SumCopies(B, {u \in BagToSet(B) : u.tracked})

ScrollCur ==
  [urls |-> urls, scrapingFinished |-> scrapingFinished, scrapingPaused |-> scrapingPaused,
   scrollQuit |-> scrollQuit]

ScrollCommit(S) ==
  /\ urls' = S.urls
  /\ scrapingFinished' = S.scrapingFinished
  /\ scrapingPaused' = S.scrapingPaused
  /\ scrollQuit' = S.scrollQuit

\* the record u of S.urls becomes v
Put(S, u, v) == [S EXCEPT !.urls = (@ (-) One(u)) (+) One(Tidy(v))]

(***************************************************************************)
(* Scroll-scraping harvester: handlers                                     *)
(***************************************************************************)
\* console-message '__DOWNLOAD_URL__' for the URL of record u
OnDownloadUrlMessage(S, u) ==
  LET v == IF ~u.tracked
           THEN [u EXCEPT !.tracked = TRUE,
                          !.info = [baseFilename |-> u.cand.baseName \o u.cand.suffix,
                                    retriesLeft |-> MAX_DOWNLOAD_RETRIES,
                                    isRetry |-> FALSE,
                                    status |-> "pending",
                                    finalFilename |-> <<>>]]
           ELSE u
  IN  Put(S, u, [v EXCEPT !.reqs = @ + 1, !.sent = @ + 1, !.dealt = TRUE])

\* if (activeDownloads.size > MAX_CONCURRENT_DOWNLOADS) window.__SCRAPING_PAUSED = true
PauseCheck(S) ==
  IF MapSize(S.urls) > MAX_CONCURRENT_DOWNLOADS THEN [S EXCEPT !.scrapingPaused = TRUE] ELSE S

\* ResumeCheck with one watermark only: resumes as soon as the count is back under
\* MAX_CONCURRENT_DOWNLOADS
ResumeCheck_SingleWatermark(S) ==
  IF MapSize(S.urls) < MAX_CONCURRENT_DOWNLOADS THEN [S EXCEPT !.scrapingPaused = FALSE] ELSE S

\* if (activeDownloads.size < DOWNLOAD_RESUME_THRESHOLD) window.__SCRAPING_PAUSED = false
ResumeCheck(S) ==
  IF MapSize(S.urls) < DOWNLOAD_RESUME_THRESHOLD THEN [S EXCEPT !.scrapingPaused = FALSE] ELSE S

\* if (scrapingFinished && activeDownloads.size === 0) app.quit()
QuitCheck(S) ==
  IF S.scrapingFinished /\ MapSize(S.urls) = 0 THEN [S EXCEPT !.scrollQuit = TRUE] ELSE S

\* OnWillDownload that starts tracking an untracked download instead of cancelling it
OnWillDownload_AdoptUntracked(S, u) ==
  LET r == ResolveFilename(u.info, u.cand.mimeType)
      v == [u EXCEPT !.reqs = @ - 1,
                     !.items = @ + 1,
                     !.attempts = @ + 1,
                     !.tracked = TRUE,
                     !.info.status = "downloading",
                     !.info.finalFilename = IF r.store THEN r.name ELSE @,
                     !.file = [name |-> r.name, content |-> "partial"]]
  IN  PauseCheck(Put(S, u, v))

\* session 'will-download' for a downloadURL call of record u
OnWillDownload(S, u) ==
  IF ~u.tracked
  THEN \* untracked download: item.cancel()
       Put(S, u, [u EXCEPT !.reqs = @ - 1])
  ELSE LET r == ResolveFilename(u.info, u.cand.mimeType)
           v == [u EXCEPT !.reqs = @ - 1,
                          !.items = @ + 1,
                          !.attempts = @ + 1,
                          !.info.status = "downloading",
                          !.info.finalFilename = IF r.store THEN r.name ELSE @,
                          \* item.setSavePath(savePath): the item writes there
                          !.file = [name |-> r.name, content |-> "partial"]]
       IN  PauseCheck(Put(S, u, v))

\* the finalFilename of the handler's closure, once the name was resolved
SavedName(info) == IF info.finalFilename # <<>> THEN info.finalFilename ELSE info.baseFilename

\* item 'done' with state 'completed'
OnDoneCompleted(S, u) ==
  LET v == [u EXCEPT !.items = @ - 1,
                     !.file = [name |-> SavedName(u.info), content |-> "complete"],
                     !.completed = @ + 1,
                     !.tracked = FALSE]
  IN  QuitCheck(ResumeCheck(Put(S, u, v)))

\* item 'done' with a state other than 'completed' and 'cancelled' (interrupted)
OnDoneFailed(S, u) ==
  IF u.info.retriesLeft > 0
  THEN Put(S, u, [u EXCEPT !.items = @ - 1,
                           !.info.retriesLeft = @ - 1,
                           !.info.isRetry = TRUE,
                           !.info.status = "pending",
                           !.reqs = @ + 1])
  ELSE QuitCheck(ResumeCheck(Put(S, u, [u EXCEPT !.items = @ - 1, !.tracked = FALSE])))

\* the stall timer fires: item.cancel(); then item 'done' with state 'cancelled'.
\* A cancelled download item removes what it wrote.
OnStallCancelled(S, u) ==
  LET v == [u EXCEPT !.items = @ - 1, !.stalled = @ + 1, !.file = NoFile]
  IN  QuitCheck(ResumeCheck(Put(S, u, v)))

HandleScrapingComplete(S) ==
  LET T == [S EXCEPT !.scrapingFinished = TRUE]
  IN  IF MapSize(T.urls) = 0 THEN [T EXCEPT !.scrollQuit = TRUE] ELSE T

(***************************************************************************)
(* Scroll-scraping harvester: initial state and actions                    *)
(***************************************************************************)
ScrollInitWith(cands) ==
  /\ urls = [c \in DOMAIN cands |-> cands[c]]
  /\ scrapingFinished = FALSE
  /\ scrapingPaused = FALSE
  /\ scrollQuit = FALSE
  /\ scrollRun = 1
  /\ scrollPrevAllOk = FALSE
  /\ scrollAborted = FALSE
  /\ sFail = 0
  /\ sStall = 0

ScrollRunning == ~scrollQuit

ScrollEnv == <<scrollRun, scrollPrevAllOk, scrollAborted, apiVars, photoVars, timerVars, choice>>

\* dealWithItem for a candidate: one that is in downloadedFileBases is filtered out,
\* any other is requested and the main process handles the '__DOWNLOAD_URL__' console
\* message; a URL that two potentialDownloads share is requested a second time
DealWithItem ==
  /\ ScrollRunning /\ ~scrapingFinished
  /\ \E u \in BagToSet(urls) :
       /\ ~u.dealt \/ (u.cand.twin /\ u.sent = 1)
       /\ ScrollCommit(IF ~u.dealt /\ u.existingBase = u.cand.baseName
                       THEN Put(ScrollCur, u, [u EXCEPT !.dealt = TRUE, !.skipped = TRUE])
                       ELSE OnDownloadUrlMessage(ScrollCur, u))
  /\ UNCHANGED <<ScrollEnv, sFail, sStall>>

\* console-message '__SCRAPING_COMPLETE__'
ScrapingComplete ==
  /\ ScrollRunning /\ ~scrapingFinished
  /\ ScrollCommit(HandleScrapingComplete(ScrollCur))
  /\ UNCHANGED <<ScrollEnv, sFail, sStall>>

WillDownload ==
  /\ ScrollRunning
  /\ \E u \in BagToSet(urls) :
       /\ u.reqs > 0
       /\ ScrollCommit(OnWillDownload(ScrollCur, u))
  /\ UNCHANGED <<ScrollEnv, sFail, sStall>>

ItemCompleted ==
  /\ ScrollRunning
  /\ \E u \in BagToSet(urls) :
       /\ u.items > 0
       /\ ScrollCommit(OnDoneCompleted(ScrollCur, u))
  /\ UNCHANGED <<ScrollEnv, sFail, sStall>>

ItemFailed ==
  /\ ScrollRunning
  /\ sFail < MaxFailures
  /\ \E u \in BagToSet(urls) :
       /\ u.items > 0 /\ u.cand.troubled
       /\ ScrollCommit(OnDoneFailed(ScrollCur, u))
  /\ sFail' = sFail + 1
  /\ UNCHANGED <<ScrollEnv, sStall>>

ItemStalled ==
  /\ ScrollRunning
  /\ sStall < MaxStalls
  /\ \E u \in BagToSet(urls) :
       /\ u.items > 0 /\ u.cand.troubled
       /\ ScrollCommit(OnStallCancelled(ScrollCur, u))
  /\ sStall' = sStall + 1
  /\ UNCHANGED <<ScrollEnv, sFail>>

\* the stall timer of one of many downloads from a stalling server fires
ItemStalledUnderLoad ==
  /\ ScrollRunning
  /\ sStall < MaxLoadStalls
  /\ \E u \in BagToSet(urls) :
       /\ u.items > 0 /\ u.cand.troubled
       /\ ScrollCommit(OnStallCancelled(ScrollCur, u))
  /\ sStall' = sStall + 1
  /\ UNCHANGED <<ScrollEnv, sFail>>

\* the harvester is started again against the same destDir and the same page
ScrollRestart ==
  /\ scrollQuit
  /\ scrollRun < MaxRuns
  /\ urls' = LET old == BagToSet(urls)
                 new == {FreshUrl(u.cand, u.file) : u \in old}
             IN  [n \in new |-> SumCopies(urls, {u \in old : FreshUrl(u.cand, u.file) = n})]
  /\ scrapingFinished' = FALSE
  /\ scrapingPaused' = FALSE
  /\ scrollQuit' = FALSE
  /\ scrollRun' = scrollRun + 1
  /\ scrollPrevAllOk' = \A u \in BagToSet(urls) : u.completed >= 1 /\ u.file.content = "complete"
  /\ scrollAborted' = FALSE
  /\ sFail' = 0
  /\ sStall' = 0
  /\ UNCHANGED <<apiVars, photoVars, timerVars, choice>>

\* The operator closes the window: no 'window-all-closed' handler is registered, so
\* the application quits.  Nothing in the harvester cancels the download items; when the
\* process ends, what they wrote so far either stays at the save path or is removed
\* with them (cleaned).
OperatorClosesWindow ==
  /\ ScrollRunning
  /\ \E cleaned \in BOOLEAN :
       urls' = LET Left(u) == IF cleaned /\ u.file.content = "partial"
                              THEN [u EXCEPT !.file = NoFile] ELSE u
                   old == BagToSet(urls)
                   new == {Left(u) : u \in old}
               IN  [n \in new |-> SumCopies(urls, {u \in old : Left(u) = n})]
  /\ scrollQuit' = TRUE
  /\ scrollAborted' = TRUE
  /\ UNCHANGED <<scrapingFinished, scrapingPaused, scrollRun, scrollPrevAllOk, sFail, sStall,
                 apiVars, photoVars, timerVars, choice>>

\* startScraping throws (waitForPageReady, mkdir or readdir fails) before the renderer
\* script is injected: the catch block calls app.quit()
StartScrapingFailed ==
  /\ ScrollRunning
  /\ \A u \in BagToSet(urls) : ~u.dealt
  /\ ~scrapingFinished
  /\ scrollQuit' = TRUE
  /\ scrollAborted' = TRUE
  /\ UNCHANGED <<urls, scrapingFinished, scrapingPaused, scrollRun, scrollPrevAllOk, sFail,
                 sStall, apiVars, photoVars, timerVars, choice>>

ScrollNext ==
  \/ DealWithItem
  \/ ScrapingComplete
  \/ WillDownload
  \/ ItemCompleted
  \/ ItemFailed
  \/ ItemStalled

\* the page of the main scroll-scraping runs
MainPage ==
  (FreshUrl(PlainVideo, NoFile) :> NumPlain) @@ (FreshUrl(FlakyImage, NoFile) :> 1)

\* a small page for runs that are repeated against the same destination
SmallPage ==
  (FreshUrl(PlainVideo, NoFile) :> 1) @@ (FreshUrl(KnownImage, NoFile) :> 1)
    @@ (FreshUrl(OddImage, NoFile) :> 1)

\* a page whose URLs all are on a server that may stall
StallingPage == FreshUrl(FlakyImage, NoFile) :> NumStalling

(***************************************************************************)
(* Photo harvester                                                         *)
(***************************************************************************)
\* a worker of main: where its async function stands, the target it processes, the
\* downloadContext of its window, the promise of triggerDownload and the download item
IdleWorker == [pc |-> "idle", target |-> 0, ctx |-> FALSE, promise |-> "none", item |-> "none"]

EndedWorker == [IdleWorker EXCEPT !.pc = "end"]

PhotoCur ==
  [queue |-> pQueue, workers |-> pWorkers, json |-> pJson, media |-> pMedia,
   taken |-> pTaken, processed |-> pProcessed]

PhotoCommit(P) ==
  /\ pQueue' = P.queue
  /\ pWorkers' = P.workers
  /\ pJson' = P.json
  /\ pMedia' = P.media
  /\ pTaken' = P.taken
  /\ pProcessed' = P.processed

\* the worker record w of P.workers becomes v
PutWorker(P, w, v) == [P EXCEPT !.workers = (@ (-) One(w)) (+) One(v)]

\* TakeNext that reads the head of the queue without removing it
TakeNext_Peek(P, w) ==
  IF Len(P.queue) > 0
  THEN LET t == Head(P.queue)
       IN  PutWorker([P EXCEPT !.taken = Append(@, t),
                               !.processed[t] = @ + 1],
                     w, [IdleWorker EXCEPT !.pc = "open", !.target = t])
  ELSE PutWorker(P, w, EndedWorker)

\* a worker at the test of `while (queue.length > 0)`: it shifts the head off the queue
\* and calls processTarget, which runs up to `await win.loadURL(url)`, or it ends
TakeNext(P, w) ==
  IF Len(P.queue) > 0
  THEN LET t == Head(P.queue)
       IN  PutWorker([P EXCEPT !.queue = Tail(@),
                               !.taken = Append(@, t),
                               !.processed[t] = @ + 1],
                     w, [IdleWorker EXCEPT !.pc = "open", !.target = t])
  ELSE PutWorker(P, w, EndedWorker)

\* windows.map(win => (async () => {...})()): each worker runs up to its first await
RECURSIVE StartWorkers(_, _)
StartWorkers(P, n) ==
  IF n = 0 THEN P ELSE StartWorkers(TakeNext(P, IdleWorker), n - 1)

\* triggerDownload up to `await downloadPromise`, after openUrl and mkdir
TriggerDownload(P, w) ==
  PutWorker(P, w, [w EXCEPT !.pc = "trigger", !.ctx = TRUE, !.promise = "pending"])

\* session 'will-download' in the window of worker w
PhotoOnWillDownload(P, w) ==
  IF ~w.ctx THEN P
  ELSE PutWorker([P EXCEPT !.media[w.target] = "partial"], w, [w EXCEPT !.item = "live"])

\* settling a promise that is already settled changes nothing
Settle(w, how) == IF w.promise = "pending" THEN [w EXCEPT !.promise = how] ELSE w

\* item 'done': state is "completed", "cancelled" or "interrupted"
PhotoOnDone(P, w, state) ==
  LET v == [w EXCEPT !.item = "done"]
  IN  CASE state = "completed" ->
             PutWorker([P EXCEPT !.media[w.target] = "complete"], w, Settle(v, "resolved"))
        [] state = "cancelled" ->
             PutWorker([P EXCEPT !.media[w.target] = "none"], w, v)
        [] OTHER ->
             PutWorker(P, w, Settle(v, "rejected"))

\* the stall timer fires: item.cancel(), reject(...); the item then reports 'done' with
\* state 'cancelled'
PhotoOnStall(P, w) ==
  LET v == Settle(w, "rejected")
  IN  PhotoOnDone(PutWorker(P, w, v), v, "cancelled")

\* processTarget after `await triggerDownload`: finally of triggerDownload, hideFile
AfterDownload(P, w) ==
  LET Q == IF w.promise = "resolved" THEN [P EXCEPT !.json[w.target] = "hidden"] ELSE P
  IN  PutWorker(Q, w, [w EXCEPT !.pc = "delay", !.ctx = FALSE, !.promise = "none"])

PhotoInitWith(n) ==
  /\ pTargets = [i \in 1..n |-> i]
  /\ pQueue = <<>>
  /\ pWorkers = EmptyBag
  /\ pJson = [i \in 1..n |-> "visible"]
  /\ pMedia = [i \in 1..n |-> "none"]
  /\ pPc = "targets"
  /\ pTaken = <<>>
  /\ pProcessed = [i \in 1..n |-> 0]
  /\ pRun = 1

PhotoEnv == <<pTargets, pRun, apiVars, scrollVars, timerVars, choice>>

\* Faults are injected into the first two targets only: their page may fail to load
\* and their downloads may be interrupted or stall.
PhotoMayFail(t) == t <= 2

\* main after `await getTargets(rootDir)`: the queue is built and the workers start
PhotoMain ==
  /\ pPc = "targets"
  /\ pPc' = "pool"
  /\ PhotoCommit(StartWorkers([PhotoCur EXCEPT !.queue = pTargets,
                                               !.workers = (IdleWorker :> NUM_WINDOWS)],
                              NUM_WINDOWS))
  /\ UNCHANGED PhotoEnv

\* the workers run until the process ends, also after main has thrown
PoolRunning == pPc \in {"pool", "failed"}

\* `await win.loadURL(url)` rejects in openUrl: processTarget and the worker's async
\* function reject, so Promise.all and main reject and app.quit() is never reached
PageOpenFailed ==
  /\ PoolRunning
  /\ \E w \in BagToSet(pWorkers) :
       /\ w.pc = "open" /\ PhotoMayFail(w.target)
       /\ PhotoCommit(PutWorker(PhotoCur, w, [w EXCEPT !.pc = "dead"]))
  /\ pPc' = "failed"
  /\ UNCHANGED PhotoEnv

\* openUrl and mkdir are over
PageOpened ==
  /\ PoolRunning
  /\ \E w \in BagToSet(pWorkers) :
       /\ w.pc = "open"
       /\ PhotoCommit(TriggerDownload(PhotoCur, w))
  /\ UNCHANGED <<PhotoEnv, pPc>>

\* the page answers the keystroke with a download
PhotoWillDownload ==
  /\ PoolRunning
  /\ \E w \in BagToSet(pWorkers) :
       /\ w.pc = "trigger" /\ w.item = "none"
       /\ PhotoCommit(PhotoOnWillDownload(PhotoCur, w))
  /\ UNCHANGED <<PhotoEnv, pPc>>

PhotoItemDone ==
  /\ PoolRunning
  /\ \E w \in BagToSet(pWorkers) : \E state \in {"completed", "interrupted"} :
       /\ w.item = "live"
       /\ (state = "interrupted") => PhotoMayFail(w.target)
       /\ PhotoCommit(PhotoOnDone(PhotoCur, w, state))
  /\ UNCHANGED <<PhotoEnv, pPc>>

PhotoItemStalled ==
  /\ PoolRunning
  /\ \E w \in BagToSet(pWorkers) :
       /\ w.item = "live" /\ PhotoMayFail(w.target)
       /\ PhotoCommit(PhotoOnStall(PhotoCur, w))
  /\ UNCHANGED <<PhotoEnv, pPc>>

\* `await triggerDownload(win, destDir)` returns or throws
DownloadSettled ==
  /\ PoolRunning
  /\ \E w \in BagToSet(pWorkers) :
       /\ w.pc = "trigger" /\ w.promise \in {"resolved", "rejected"}
       /\ PhotoCommit(AfterDownload(PhotoCur, w))
  /\ UNCHANGED <<PhotoEnv, pPc>>

\* the DELAY_BETWEEN_FILES timer fires: the worker is back at its while test
DelayOver ==
  /\ PoolRunning
  /\ \E w \in BagToSet(pWorkers) :
       /\ w.pc = "delay"
       /\ PhotoCommit(TakeNext(PhotoCur, [w EXCEPT !.pc = "delay"]))
  /\ UNCHANGED <<PhotoEnv, pPc>>

\* `await Promise.all(workers)` resolves; app.quit()
PhotoFinished ==
  /\ pPc = "pool"
  /\ \A w \in BagToSet(pWorkers) : w.pc = "end"
  /\ pPc' = "quit"
  /\ UNCHANGED <<PhotoEnv, pQueue, pWorkers, pJson, pMedia, pTaken, pProcessed>>

\* getTargets(rootDir): the JSON files, hidden ones included (a name with a leading
\* '.' still ends with '.json'), whose media file path.join(dir, data.title) does not
\* exist; from target i on.  The download is saved under the title.
RECURSIVE GetTargets(_, _)
GetTargets(media, i) ==
  IF i > Len(media) THEN <<>>
  ELSE (IF media[i] = "none" THEN <<i>> ELSE <<>>) \o GetTargets(media, i + 1)

\* Shift+D starts no download in the window of a worker: 'will-download' never fires
KeystrokeIgnored ==
  /\ PoolRunning
  /\ \E w \in BagToSet(pWorkers) :
       /\ w.pc = "trigger" /\ w.item = "none" /\ PhotoMayFail(w.target)
       /\ PhotoCommit(PutWorker(PhotoCur, w, [w EXCEPT !.item = "absent"]))
  /\ UNCHANGED <<PhotoEnv, pPc>>

\* the download manager discards what an interrupted download had written
PartialDiscarded ==
  /\ PoolRunning
  /\ \E w \in BagToSet(pWorkers) :
       /\ w.pc = "trigger" /\ w.item = "done" /\ w.promise = "rejected"
       /\ pMedia[w.target] = "partial"
       /\ PhotoCommit([PhotoCur EXCEPT !.media[w.target] = "none"])
  /\ UNCHANGED <<PhotoEnv, pPc>>

\* `await hideFile(jsonPath)` rejects (fs.rename fails): processTarget, the worker,
\* Promise.all and main reject; the JSON file keeps its name
HideFileFailed ==
  /\ PoolRunning
  /\ \E w \in BagToSet(pWorkers) :
       /\ w.pc = "trigger" /\ w.promise = "resolved" /\ PhotoMayFail(w.target)
       /\ PhotoCommit(PutWorker(PhotoCur, w, [w EXCEPT !.pc = "dead", !.ctx = FALSE]))
  /\ pPc' = "failed"
  /\ UNCHANGED PhotoEnv

\* the harvester is started again on the same rootDir: whenReady, getTargets
PhotoRestart ==
  /\ pPc = "quit"
  /\ pRun < MaxRuns
  /\ pRun' = pRun + 1
  /\ pTargets' = GetTargets(pMedia, 1)
  /\ pQueue' = <<>>
  /\ pWorkers' = EmptyBag
  /\ pPc' = "targets"
  /\ pTaken' = <<>>
  /\ pProcessed' = [i \in DOMAIN pProcessed |-> 0]
  /\ UNCHANGED <<pJson, pMedia, apiVars, scrollVars, timerVars, choice>>

PhotoNext ==
  \/ PhotoMain
  \/ PageOpenFailed
  \/ PageOpened
  \/ PhotoWillDownload
  \/ PhotoItemDone
  \/ PhotoItemStalled
  \/ DownloadSettled
  \/ DelayOver
  \/ PhotoFinished

(***************************************************************************)
(* The stall timer of a download item                                      *)
(***************************************************************************)
TimerCur == [item |-> tItem, lastBytes |-> tLastBytes, timer |-> tTimer]

TimerCommit(T) ==
  /\ tItem' = T.item
  /\ tLastBytes' = T.lastBytes
  /\ tTimer' = T.timer

\* resetTimeout(): clearTimeout(timeoutId); timeoutId = setTimeout(...)
ResetTimeout(T) == [T EXCEPT !.timer = [armed |-> TRUE, age |-> 0]]

\* the 'will-download' handlers from resetTimeout() on: the initial timeout
OnItemStart(T) ==
  ResetTimeout([T EXCEPT !.item = [state |-> "progressing", received |-> 0],
                         !.lastBytes = 0])

\* ScrollOnUpdated that records the bytes but leaves the timer running: the timeout
\* then bounds the whole transfer
ScrollOnUpdated_TotalTime(T, state) ==
  IF state = "progressing" /\ T.item.received > T.lastBytes
  THEN [T EXCEPT !.lastBytes = T.item.received]
  ELSE T

\* item.on('updated') of the scroll-scraping harvester
ScrollOnUpdated(T, state) ==
  IF state = "progressing" /\ T.item.received > T.lastBytes
  THEN ResetTimeout([T EXCEPT !.lastBytes = T.item.received])
  ELSE T

\* item.on('updated') of the photo harvester
PhotoOnUpdated(T, state) ==
  IF state = "progressing" THEN ResetTimeout(T) ELSE T

\* the setTimeout callback: item.cancel()
OnStallTimeout(T) ==
  [T EXCEPT !.item.state = "cancelled", !.timer.armed = FALSE]

\* item.on('done'): clearTimeout(timeoutId)
OnItemDone(T, state) ==
  [T EXCEPT !.item.state = state, !.timer.armed = FALSE]

TimerInit ==
  /\ tItem = [state |-> "none", received |-> 0]
  /\ tLastBytes = 0
  /\ tTimer = [armed |-> FALSE, age |-> 0]
  /\ tClock = [sinceBytes |-> 0, maxGap |-> 0, elapsed |-> 0, byTimer |-> FALSE,
               idleUpdates |-> 0]

TimerEnv == <<apiVars, scrollVars, photoVars, choice>>

\* session 'will-download': the item starts and the timer is armed
ItemStarts ==
  /\ tItem.state = "none"
  /\ TimerCommit(OnItemStart(TimerCur))
  /\ UNCHANGED <<TimerEnv, tClock>>

\* one tick of time passes; an armed timer fires before time passes its timeout
Tick ==
  /\ tItem.state = "progressing"
  /\ tClock.elapsed < MaxTicks
  /\ tTimer.armed => tTimer.age < StallTicks
  /\ tTimer' = [tTimer EXCEPT !.age = @ + 1]
  /\ tClock' = [tClock EXCEPT !.elapsed = @ + 1,
                              !.sinceBytes = @ + 1,
                              !.maxGap = IF tClock.sinceBytes + 1 > @
                                         THEN tClock.sinceBytes + 1 ELSE @]
  /\ UNCHANGED <<TimerEnv, tItem, tLastBytes>>

\* the item emits 'updated': new bytes arrived (n = 1) or not (n = 0), and its state is
\* 'progressing' or, when the transfer is held up, 'interrupted'
ItemUpdated ==
  /\ tItem.state = "progressing"
  /\ \E n \in {0, 1} : \E state \in {"progressing", "interrupted"} :
       /\ n = 1 => (tItem.received < MaxBytes /\ state = "progressing")
       /\ n = 0 => tClock.idleUpdates < MaxIdleUpdates
       /\ LET T == [TimerCur EXCEPT !.item.received = @ + n]
          IN  TimerCommit(IF choice = "google" THEN PhotoOnUpdated(T, state)
                                               ELSE ScrollOnUpdated(T, state))
       /\ tClock' = [tClock EXCEPT !.sinceBytes = IF n = 1 THEN 0 ELSE @,
                                   !.idleUpdates = IF n = 0 THEN @ + 1 ELSE @]
  /\ UNCHANGED TimerEnv

\* the timeout is over and the timer callback runs
StallTimeout ==
  /\ tItem.state = "progressing"
  /\ tTimer.armed /\ tTimer.age >= StallTicks
  /\ TimerCommit(OnStallTimeout(TimerCur))
  /\ tClock' = [tClock EXCEPT !.byTimer = TRUE]
  /\ UNCHANGED TimerEnv

\* the item emits 'done' by itself
ItemDone ==
  /\ tItem.state = "progressing"
  /\ \E state \in {"completed", "interrupted"} : TimerCommit(OnItemDone(TimerCur, state))
  /\ UNCHANGED <<TimerEnv, tClock>>

TimerNext ==
  \/ ItemStarts
  \/ Tick
  \/ ItemUpdated
  \/ StallTimeout
  \/ ItemDone

(***************************************************************************)
(* Specifications                                                          *)
(***************************************************************************)
\* the launcher: process.argv[2] selects the harvester this process runs
Launched(c) == choice = c

Init ==
  /\ Launched("grok-api")
  /\ \E a \in BOOLEAN : ApiInitWith(MainFeed, a, {})
  /\ ScrollInitWith(SmallPage)
  /\ PhotoInitWith(NumTargets)
  /\ TimerInit

Next ==
  \/ HeadersCaptured
  \/ PressF7
  \/ FetchResolved
  \/ FetchRejected
  \/ HarvestTimer
  \/ TransferFailed
  \/ TransferFinished
  \/ RetryTimerFired

Spec == Init /\ [][Next]_vars

\* repeated runs against one destination directory, on small feeds
RunsInit ==
  /\ Launched("grok-api")
  /\ \E fd \in SmallFeeds : \E a \in BOOLEAN : ApiInitWith(fd, a, {})
  /\ ScrollInitWith(SmallPage)
  /\ PhotoInitWith(NumTargets)
  /\ TimerInit

RunsNext == Next \/ Restart

RunsSpec == RunsInit /\ [][RunsNext]_vars

\* the scroll-scraping harvester on a small page, with every kind of fault
ScrollInit ==
  /\ Launched("grok-scroll")
  /\ ApiInitWith(MainFeed, FALSE, {})
  /\ ScrollInitWith(SmallPage)
  /\ PhotoInitWith(NumTargets)
  /\ TimerInit

ScrollSpec == ScrollInit /\ [][ScrollNext]_vars

\* the scroll-scraping harvester on a page large enough to cross the watermarks
LoadInit ==
  /\ Launched("grok-scroll")
  /\ ApiInitWith(MainFeed, FALSE, {})
  /\ ScrollInitWith(MainPage)
  /\ PhotoInitWith(NumTargets)
  /\ TimerInit

LoadSpec == LoadInit /\ [][ScrollNext]_vars

ScrollRunsInit == ScrollInit

ScrollRunsNext == ScrollNext \/ ScrollRestart

ScrollRunsSpec == ScrollRunsInit /\ [][ScrollRunsNext]_vars

\* the scroll-scraping harvester, with runs that are aborted
ScrollAbortNext == ScrollNext \/ OperatorClosesWindow \/ StartScrapingFailed

ScrollAbortSpec == ScrollInit /\ [][ScrollAbortNext]_vars

\* the scroll-scraping harvester on a page of a stalling server
StallLoadInit ==
  /\ Launched("grok-scroll")
  /\ ApiInitWith(MainFeed, FALSE, {})
  /\ ScrollInitWith(StallingPage)
  /\ PhotoInitWith(NumTargets)
  /\ TimerInit

StallLoadNext ==
  \/ DealWithItem
  \/ ScrapingComplete
  \/ WillDownload
  \/ ItemCompleted
  \/ ItemStalledUnderLoad

StallLoadSpec == StallLoadInit /\ [][StallLoadNext]_vars

\* the photo harvester
PhotoInit ==
  /\ Launched("google")
  /\ ApiInitWith(MainFeed, FALSE, {})
  /\ ScrollInitWith(SmallPage)
  /\ PhotoInitWith(NumTargets)
  /\ TimerInit

PhotoSpec == PhotoInit /\ [][PhotoNext]_vars

\* any one of the harvesters the launcher can start
LaunchInit == Init \/ PhotoInit

LaunchNext == (Launched("grok-api") /\ Next) \/ (Launched("google") /\ PhotoNext)

LaunchSpec == LaunchInit /\ [][LaunchNext]_vars

\* the photo harvester run repeatedly on a small rootDir, with every kind of fault
PhotoRunsInit ==
  /\ Launched("google")
  /\ ApiInitWith(MainFeed, FALSE, {})
  /\ ScrollInitWith(SmallPage)
  /\ PhotoInitWith(NumRunTargets)
  /\ TimerInit

PhotoRunsNext ==
  \/ PhotoNext
  \/ KeystrokeIgnored
  \/ PartialDiscarded
  \/ HideFileFailed
  \/ PhotoRestart

PhotoRunsSpec == PhotoRunsInit /\ [][PhotoRunsNext]_vars

\* one download of the scroll-scraping or of the photo harvester and its stall timer
StallInit == ScrollInit \/ PhotoInit

StallSpec == StallInit /\ [][TimerNext]_vars

(***************************************************************************)
(* Claims                                                                  *)
(***************************************************************************)

\* C1: in the API-pagination harvester activeDownloads never exceeds
\* CONFIG.CONCURRENT_DOWNLOADS.
C1_ConcurrencyBound == activeDownloads <= CONCURRENT_DOWNLOADS

\* C2: app.quit is called only when discovery is complete and every submitted task
\* is terminal: no task is pending, in transfer or waiting for its retry (API
\* harvester), no URL is tracked or has a transfer in progress (scroll harvester).
C2_QuitOnlyWhenAllTerminal ==
  /\ quitCalled =>
        /\ harvestPc = "finished"
        /\ downloadQueue = <<>>
        /\ transfers = EmptyBag
        /\ retryTimers = EmptyBag
  /\ scrollQuit =>
        /\ scrapingFinished
        /\ \A u \in BagToSet(urls) : ~u.tracked /\ u.items = 0

\* C3: a transfer cancelled by the stall timer whose task has retries left gets a new
\* attempt: the task is never left in the in-flight set with neither a running
\* transfer nor a requested one.
C3_StalledIsRetried ==
  \A u \in BagToSet(urls) :
    (u.stalled > 0 /\ u.tracked /\ u.info.retriesLeft > 0) => (u.items + u.reqs > 0)

\* C4: no task has more transfer attempts started than the retry limit plus one.
C4_AttemptsBounded ==
  /\ \A f \in Files : hist[f].attempts <= DOWNLOAD_RETRIES + 1
  /\ \A u \in BagToSet(urls) : u.attempts <= MAX_DOWNLOAD_RETRIES + 1

\* C5: once raised, the pause signal is cleared only by an event after which the
\* in-flight count is below DOWNLOAD_RESUME_THRESHOLD.
C5_Hysteresis ==
  [][(scrapingPaused /\ ~scrapingPaused') => MapSize(urls') < DOWNLOAD_RESUME_THRESHOLD]_vars

\* C5, witness: the signal is still raised although the in-flight count has come
\* down from above MAX_CONCURRENT_DOWNLOADS to exactly DOWNLOAD_RESUME_THRESHOLD.
C5_Witness == scrapingPaused /\ MapSize(urls) = DOWNLOAD_RESUME_THRESHOLD

\* C6: when the previous run ended with every candidate downloaded, the next run
\* against the same destination requests and starts no transfer.
C6_SecondRunSkipsAll ==
  /\ (run = 2 /\ prevAllDownloaded) =>
        \A f \in Files : hist[f].queued = 0 /\ hist[f].attempts = 0
  /\ (scrollRun = 2 /\ scrollPrevAllOk) =>
        \A u \in BagToSet(urls) : u.sent = 0 /\ u.attempts = 0

\* C7: a file at a final destination path always holds the complete content.
C7_FinalPathComplete ==
  /\ \A f \in Files : outDir[f] \in {"none", "complete"}
  /\ \A u \in BagToSet(urls) : u.file.content \in {"none", "complete"}

\* C8: after every scheduler event of the API harvester, a non-empty downloadQueue
\* implies that activeDownloads equals CONFIG.CONCURRENT_DOWNLOADS.
C8_SlotsRefilled ==
  (~quitCalled /\ canStartDownloads /\ Len(downloadQueue) > 0)
    => activeDownloads = CONCURRENT_DOWNLOADS

\* C9: when the retry delay of a task is over, the task re-enters the pending queue at
\* its tail; its transfer starts in that step only if nothing was pending and a slot
\* was free.
C9_RetryReentersQueue ==
  [][\A x \in BagToSet(retryTimers) :
       CopiesIn(x, retryTimers') < CopiesIn(x, retryTimers) =>
         \/ downloadQueue' = Append(downloadQueue, x.task)
         \/ downloadQueue = <<>> /\ activeDownloads < CONCURRENT_DOWNLOADS]_vars

\* C10: a task whose transfer failed k times, 1 <= k <= DOWNLOAD_RETRIES, and then
\* succeeded is counted once in harvestStats.downloaded and not in harvestStats.errors.
C10_RetriedThenCompleted ==
  \A f \in Files :
    (hist[f].finished >= 1 /\ hist[f].failures \in 1..DOWNLOAD_RETRIES) =>
      (hist[f].completed = 1 /\ hist[f].gaveUp = 0)

\* C11: when the metadata step fails in any way (tool missing, tool exits non-zero, a
\* file operation of embedMetadata fails) and the later steps do not, the task is at
\* its final path, counted in harvestStats.downloaded and not in harvestStats.errors.
C11_MetadataBestEffort ==
  \A f \in Files :
    (hist[f].metaFailed >= 1 /\ hist[f].ioFailed = 0) =>
      (outDir[f] = "complete" /\ hist[f].completed = 1 /\ hist[f].gaveUp = 0)

\* C12: a task whose download succeeded but whose rename to the final path or utimes
\* failed is counted in harvestStats.downloaded and not in harvestStats.errors.
C12_PostProcessFailureCounts ==
  \A f \in Files :
    (hist[f].ioFailed >= 1 /\ hist[f].metaFailed = 0) =>
      (hist[f].completed = 1 /\ hist[f].gaveUp = 0)

\* C13: after a successful download followed by a failure of the rename or of utimes,
\* the bytes are at the final path when the run ends.
C13_ArtifactNotLost ==
  \A f \in Files :
    (quitCalled /\ hist[f].ioFailed >= 1 /\ hist[f].metaFailed = 0) =>
      outDir[f] = "complete"

IsPrefix(a, b) == Len(a) <= Len(b) /\ a = SubSeq(b, 1, Len(a))

C15_GiveUpOnce ==
  [][\A f \in Files :
       /\ hist'[f].gaveUp > hist[f].gaveUp =>
            /\ hist[f].gaveUp = 0 /\ hist'[f].gaveUp = 1
            /\ harvestStats'.errors = harvestStats.errors + 1
            /\ activeDownloads' =
                 activeDownloads - 1 + (Len(dispatched') - Len(dispatched))
            /\ tmpDir'[f] = "none"
            /\ \A x \in BagToSet(transfers') \cup BagToSet(retryTimers') :
                 x.task.filename # f
       /\ hist[f].gaveUp >= 1 => hist'[f].attempts = hist[f].attempts]_vars

\* C15, witness: a task was given up after DOWNLOAD_RETRIES + 1 failed transfers while
\* other tasks were still in transfer.
C15_Witness ==
  \E f \in Files :
    /\ hist[f].gaveUp = 1 /\ hist[f].failures = DOWNLOAD_RETRIES + 1
    /\ harvestStats.errors = 1
    /\ activeDownloads > 0

\* C16: a candidate whose artifact is already in the destination is never queued or
\* requested and never has a transfer started, and (API harvester) is counted once in
\* harvestStats.skipped; a candidate whose artifact is absent is queued or requested
\* and not counted as skipped.
C16_PresentIsSkipped ==
  /\ \A f \in Files :
        /\ hist[f].skipped >= 1 =>
              (hist[f].skipped = 1 /\ hist[f].queued = 0 /\ hist[f].attempts = 0)
        /\ (outDir[f] # "none" /\ hist[f].finished = 0) => hist[f].queued = 0
        /\ hist[f].queued >= 1 => hist[f].skipped = 0
  /\ harvestStats.skipped = Cardinality({f \in Files : hist[f].skipped = 1})
  /\ \A u \in BagToSet(urls) :
        /\ u.existingBase # <<>> => (u.sent = 0 /\ u.attempts = 0)
        /\ (u.dealt /\ u.existingBase = <<>>) => (u.sent >= 1 /\ ~u.skipped)

\* C17: in the scroll-scraping harvester no URL has two transfers in progress: a
\* download request for a URL that is already in activeDownloads starts no second one.
C17_OneTransferPerUrl == \A u \in BagToSet(urls) : u.items <= 1

FilenamesOf(q) == [i \in 1..Len(q) |-> q[i].filename]

\* C18: a task that exhausts its retries does not abort the run: from then on every
\* task put in downloadQueue is either still pending or was dispatched, and app.quit is
\* called only by the completion check (discovery over, nothing pending, no slot in
\* use), when every queued task was dispatched.
C18_GiveUpDoesNotAbort ==
  (\E f \in Files : hist[f].gaveUp >= 1) =>
    /\ enqueued = dispatched \o FilenamesOf(downloadQueue)
    /\ quitCalled =>
          /\ harvestPc = "finished" /\ ~isScraping
          /\ downloadQueue = <<>> /\ activeDownloads = 0
          /\ dispatched = enqueued

\* C18, witness: the run ended after a task was given up while two or more tasks were
\* pending, and all of them were dispatched.
C18_Witness ==
  /\ quitCalled
  /\ dispatched = enqueued
  /\ \E f \in Files : hist[f].gaveUp = 1 /\ hist[f].leftPending >= 2

\* C19: a transfer whose byte arrivals are always less than the stall timeout apart is
\* never cancelled by the stall timer, however long it takes.
C19_SteadyNeverCancelled == tClock.byTimer => tClock.maxGap >= StallTicks

\* C19, witness: a transfer completed after more time than the stall timeout, with
\* every gap between byte arrivals shorter than the timeout.
C19_Witness ==
  /\ tItem.state = "completed"
  /\ tClock.elapsed > StallTicks
  /\ tClock.maxGap < StallTicks

\* C20: the stall timer is re-armed only when new bytes arrived, so a transfer in
\* progress is never without new bytes for longer than the stall timeout, whatever
\* progress events it reports.
C20_StalledIsCancelled ==
  tItem.state = "progressing" => tClock.sinceBytes <= StallTicks

\* C21: in the scroll-scraping harvester, after every event, an in-flight count above
\* MAX_CONCURRENT_DOWNLOADS implies that the pause signal is raised and an in-flight
\* count below DOWNLOAD_RESUME_THRESHOLD implies that it is cleared.
C21_SignalFollowsLoad ==
  /\ MapSize(urls) > MAX_CONCURRENT_DOWNLOADS => scrapingPaused
  /\ MapSize(urls) < DOWNLOAD_RESUME_THRESHOLD => ~scrapingPaused

\* C22: when the run is aborted while transfers are in progress, every transfer in
\* progress is cancelled, no task is left unfinished in the in-flight set, and no
\* partial artifact remains at a final path.
C22_AbortCancelsAll ==
  scrollAborted =>
    \A u \in BagToSet(urls) : u.items = 0 /\ ~u.tracked /\ u.file.content # "partial"

\* C23: once discovery has completed and every started transfer attempt has ended
\* (nothing is in transfer, requested, pending or waiting for a retry), the run has
\* ended: app.quit was called.
C23_DrainedRunEnds ==
  /\ (harvestPc = "finished" /\ transfers = EmptyBag /\ retryTimers = EmptyBag) => quitCalled
  /\ (scrapingFinished /\ \A u \in BagToSet(urls) : u.items = 0 /\ u.reqs = 0) => scrollQuit

\* the workers that are processing a target
BusyWorkers == {w \in BagToSet(pWorkers) : w.pc \in {"open", "trigger", "delay"}}

\* C24: in the photo harvester every target is taken by one worker and processed at
\* most once, and exactly once when main reaches its end; the targets in progress are
\* held by different workers and are at most NUM_WINDOWS.
C24_PoolExclusive ==
  /\ \A t \in DOMAIN pProcessed : pProcessed[t] <= 1
  /\ \A w \in BusyWorkers :
        /\ CopiesIn(w, pWorkers) = 1
        /\ \A v \in BusyWorkers : v.target = w.target => v = w
  /\ Cardinality(BusyWorkers) <= NUM_WINDOWS
  /\ BagCardinality(pWorkers) <= NUM_WINDOWS
  /\ pPc # "targets" => Len(pTaken) + Len(pQueue) = Len(pTargets)
  /\ pPc = "quit" => \A t \in DOMAIN pProcessed : pProcessed[t] = 1

\* C24, witness: NUM_WINDOWS targets are in progress at once while others wait.
C24_Witness ==
  /\ Cardinality(BusyWorkers) = NUM_WINDOWS
  /\ Len(pQueue) > 0
  /\ Len(pTaken) > NUM_WINDOWS

\* the downloadFile calls and retry timers of filename f that are outstanding
InFlightOf(f) ==
  SumCopies(transfers, {x \in BagToSet(transfers) : x.task.filename = f})
    + SumCopies(retryTimers, {x \in BagToSet(retryTimers) : x.task.filename = f})

\* C25: in the API harvester each filename is put in downloadQueue at most once per
\* run, also when a post comes back on a later page, and at most one transfer or retry
\* timer of a filename, hence of a temp path, is outstanding at any time.
C25_OneTaskPerFilename ==
  \A f \in Files :
    /\ hist[f].queued <= 1
    /\ Cardinality({i \in 1..Len(downloadQueue) : downloadQueue[i].filename = f}) <= 1
    /\ InFlightOf(f) <= 1

\* C25, witness: the page that repeats post 1 was processed while a task of post 1 was
\* in transfer or waiting for its retry.
C25_Witness ==
  /\ cursor = Len(feed)
  /\ \E f \in Files : f[2] = 1 /\ InFlightOf(f) = 1 /\ hist[f].queued = 1

\* the number of addToQueue calls, over the filenames of F (each call either counts a
\* skip or pushes the task)
RECURSIVE AddToQueueCallsOver(_)
AddToQueueCallsOver(F) ==
  IF F = {} THEN 0
  ELSE LET f == CHOOSE g \in F : TRUE
       IN  hist[f].queued + hist[f].skipped + AddToQueueCallsOver(F \ {f})

\* C26: when the run of the API harvester ends, harvestStats.downloaded + skipped +
\* errors equals the number of addToQueue calls: every task is counted exactly once.
C26_EveryTaskCounted ==
  quitCalled =>
    harvestStats.downloaded + harvestStats.skipped + harvestStats.errors
      = AddToQueueCallsOver(Files)

\* C27: in the API harvester activeDownloads is the number of transfer attempts that
\* have started and not ended; a task waiting for its retry timer is not counted, and
\* the counter is never negative.
C27_ActiveCountsAttempts ==
  /\ activeDownloads = BagCardinality(transfers)
  /\ activeDownloads >= 0

\* C27, witness: attempts have ended on the success path, on the success path with a
\* post-processing failure and on the error path; a task waits for its retry timer
\* while other attempts are running.
C27_Witness ==
  /\ retryTimers # EmptyBag
  /\ activeDownloads > 0
  /\ \E f \in Files : hist[f].postFailed >= 1
  /\ \E f \in Files : hist[f].completed >= 1
  /\ \E f \in Files : hist[f].failures >= 2

\* C28: in the scroll harvester the pause signal does not stay raised once every
\* transfer attempt has ended: when no download item is running and no requested
\* download is still to start, no 'done' handler can run any more, so the signal must
\* be clear by then.
C28_PauseClearedWhenQuiet ==
  (\A u \in BagToSet(urls) : u.items = 0 /\ u.reqs = 0) => ~scrapingPaused

\* C29: in the API harvester startApiHarvest is invoked at most once per run and only
\* after authentication headers were captured, and while canStartDownloads is false no
\* transfer was dispatched.
C29_HarvestStartsOnce ==
  /\ harvestStarts <= 1
  /\ harvestStarts >= 1 => (authHeaders /\ downloadsHaveStarted /\ canStartDownloads)
  /\ harvestPc # "idle" => harvestStarts = 1
  /\ ~canStartDownloads =>
        (dispatched = <<>> /\ transfers = EmptyBag /\ retryTimers = EmptyBag
           /\ activeDownloads = 0)

\* C29, witness: the harvest was started, once, and transfers are running while
\* discovery goes on.
C29_Witness ==
  /\ harvestStarts = 1
  /\ harvestPc = "delay"
  /\ transfers # EmptyBag
  /\ Len(dispatched) >= CONCURRENT_DOWNLOADS

\* downloadURL calls for URLs that are not in activeDownloads whose 'will-download' is
\* still to come, over the records S of B
RECURSIVE UntrackedRequests(_, _)
UntrackedRequests(B, S) ==
  IF S = {} THEN 0
  ELSE LET x == CHOOSE y \in S : TRUE
       IN  (IF x.tracked THEN 0 ELSE x.reqs * CopiesIn(x, B)) + UntrackedRequests(B, S \ {x})

\* download items that are running, over the records S of B
RECURSIVE RunningItems(_, _)
RunningItems(B, S) ==
  IF S = {} THEN 0
  ELSE LET x == CHOOSE y \in S : TRUE
       IN  x.items * CopiesIn(x, B) + RunningItems(B, S \ {x})

\* the entries of activeDownloads
TrackedPart(B) == [u \in {x \in BagToSet(B) : x.tracked} |-> CopiesIn(u, B)]

\* C30: in the scroll harvester a 'will-download' for a URL that is not in
\* activeDownloads cancels the item (no download starts running) and changes neither
\* the entries of activeDownloads, retry counters included, nor the pause signal nor
\* scrapingFinished.
C30_UntrackedDownloadIsInert ==
  [][UntrackedRequests(urls', BagToSet(urls')) < UntrackedRequests(urls, BagToSet(urls))
       => /\ TrackedPart(urls') = TrackedPart(urls)
          /\ RunningItems(urls', BagToSet(urls')) = RunningItems(urls, BagToSet(urls))
          /\ scrapingPaused' = scrapingPaused
          /\ scrapingFinished' = scrapingFinished
          /\ scrollQuit' = scrollQuit]_vars

\* C30, witness: a URL was requested twice, its first download completed and removed
\* the entry, and the 'will-download' of the second request found no entry: two
\* requests, one download started, none still to come.
C30_Witness ==
  \E u \in BagToSet(urls) :
    /\ ~u.tracked /\ u.sent = 2 /\ u.reqs = 0 /\ u.attempts = 1 /\ u.completed = 1
    /\ \E v \in BagToSet(urls) : v.tracked /\ v.items > 0

\* C31: in the photo harvester a JSON file is hidden only when its target's download
\* completed, and is hidden for every completed target when main ends; a target whose
\* download did not complete keeps its JSON file and is among the targets of the next
\* run.
C31_HiddenIffCompleted ==
  /\ \A t \in DOMAIN pJson : pJson[t] = "hidden" => pMedia[t] = "complete"
  /\ pPc = "quit" => \A t \in DOMAIN pJson : pMedia[t] = "complete" => pJson[t] = "hidden"
  /\ (pRun >= 2 /\ pPc = "targets") =>
        \A t \in DOMAIN pJson :
          (pJson[t] = "visible" /\ pMedia[t] # "complete") => t \in SeqToSet(pTargets)

\* C32: in the photo harvester a promise awaited in triggerDownload is never left
\* without something that settles it: while it is pending, either the download is
\* still to start or its item is running under the stall timer.
C32_PromiseAlwaysSettled ==
  \A w \in BagToSet(pWorkers) :
    (w.pc = "trigger" /\ w.promise = "pending") => w.item \in {"none", "live"}

====
